---- MODULE Spec2Model ----
(***************************************************************************)
(* Model of trainval_net.py: the group / epoch / iteration training loop   *)
(* of the class-incremental Faster R-CNN trainer.  The script is one       *)
(* sequential process; pc is its position, the other variables are the     *)
(* script's own variables plus three history variables (trained,           *)
(* iter_ops, recent) that record what the script did.                      *)
(***************************************************************************)
EXTENDS Integers, Sequences, FiniteSets, TLC

\* ---------------------------------------------------------------- bounds
Groups == 2          \* cfg.CIOD.GROUPS
ClsPerGroup == 1     \* classes added by each group
FeatDim == 2         \* rows of class_means (2048 in the script)
MaxEpoch == 3        \* cfg.TRAIN.MAX_EPOCH ranges over 0..MaxEpoch
MaxTrain == 3        \* len(roidb) ranges over 0..MaxTrain
MaxBatch == 2        \* cfg.TRAIN.BATCH_SIZE ranges over 1..MaxBatch
MaxDisplay == 2      \* cfg.TRAIN.DISPLAY ranges over 1..MaxDisplay
MaxDecayStep == 2    \* cfg.TRAIN.LEARNING_RATE_DECAY_STEP ranges over 1..MaxDecayStep
LossValues == {1, 2} \* the values a loss term's mean is drawn from

\* ------------------------------------------------------------- rationals
\* Learning rates are rationals <<numerator, denominator>>.
RMul(a, b) == <<a[1] * b[1], a[2] * b[2]>>

REq(a, b) == a[1] * b[2] = b[1] * a[2]

RECURSIVE RPow(_, _)
RPow(a, n) == IF n = 0 THEN <<1, 1>> ELSE RMul(a, RPow(a, n - 1))

Tenth == <<1, 10>>                 \* the literal 0.1 of the adam branch

LEARNING_RATE == <<1, 1000>>       \* cfg.TRAIN.LEARNING_RATE
LEARNING_RATE_DECAY_GAMMA == <<1, 2>>   \* cfg.TRAIN.LEARNING_RATE_DECAY_GAMMA

\* ------------------------------------------------------------ sequences
RECURSIVE SumSeq(_)
SumSeq(s) == IF s = <<>> THEN 0 ELSE Head(s) + SumSeq(Tail(s))

IsPrefix(s, t) == Len(s) <= Len(t) /\ SubSeq(t, 1, Len(s)) = s

Range(s) == {s[i] : i \in 1..Len(s)}

\* range(a, b) of Python as a sequence
PyRange(a, b) == [i \in 1..(IF b > a THEN b - a ELSE 0) |-> a + i - 1]

\* the last n elements of s (all of s when it is shorter)
LastN(s, n) == IF Len(s) <= n THEN s ELSE SubSeq(s, Len(s) - n + 1, Len(s))

Unbound == 0 - 1     \* a loop variable that has not been assigned yet

\* ------------------------------------------------------ inputs of a run
\* --net as a sequence of characters, so that startswith and [3:] are computed
Nets == {<<"v", "g", "g", "1", "6">>, <<"r", "e", "s", "1", "0", "1">>,
         <<"r", "e", "s", "x">>, <<"a", "l", "e", "x">>}
Optimizers == {"adam", "sgd", "rmsprop"}

TOTAL_CLS == Groups * ClsPerGroup
NUM_CLASSES == TOTAL_CLS + 1

\* ciod_old_and_new: the class boundary of every group (class 0 is background)
group_cls == [i \in 0..Groups |-> 1 + i * ClsPerGroup]

VARIABLES pc, args, cfg, output_dir, class_means, class_proto,
          start_group, end_group, group_iter, group, now_cls_low, now_cls_high,
          fasterRCNN, optimizer, lr, train_size, iters_per_epoch, tot_step,
          epoch_iter, epoch, data_iter, iter_i, loss_temp, loss,
          checkpoints,
          trained, iter_ops, recent

vars == <<pc, args, cfg, output_dir, class_means, class_proto,
          start_group, end_group, group_iter, group, now_cls_low, now_cls_high,
          fasterRCNN, optimizer, lr, train_size, iters_per_epoch, tot_step,
          epoch_iter, epoch, data_iter, iter_i, loss_temp, loss,
          checkpoints,
          trained, iter_ops, recent>>

NoNet == [arch |-> "none", init |-> "none", updates |-> 0, grad |-> "none", mode |-> "none"]
NoOptimizer == [kind |-> "none", param_groups |-> <<>>, steps |-> 0]
NoLoss == [terms |-> <<>>, value |-> 0]

\* lines 66-103: the arguments, the configuration and the state built before
\* the group loop
Init ==
    /\ pc = "select_groups"
    /\ args \in [group : (0 - 1)..(Groups - 1), net : Nets, session : {1},
                 dataset : {"2007"}, save_dir : {"results"}]
    /\ cfg \in [OPTIMIZER : Optimizers, MAX_EPOCH : 0..MaxEpoch,
                BATCH_SIZE : 1..MaxBatch, DISPLAY : 1..MaxDisplay,
                LEARNING_RATE_DECAY_STEP : 1..MaxDecayStep,
                DOUBLE_BIAS : {1}, GROUPS : {Groups}]
    /\ output_dir = <<args.save_dir, args.session, args.net, args.dataset>>
    /\ class_means = [r \in 1..FeatDim |-> [c \in 1..(NUM_CLASSES + 1) |-> 0]]
    /\ class_proto = [c \in 1..(TOTAL_CLS + 1) |-> <<>>]
    /\ start_group = Unbound /\ end_group = Unbound
    /\ group_iter = 0 /\ group = Unbound
    /\ now_cls_low = Unbound /\ now_cls_high = Unbound
    /\ fasterRCNN = NoNet /\ optimizer = NoOptimizer /\ lr = <<0, 1>>
    /\ train_size = 0 /\ iters_per_epoch = 0 /\ tot_step = 0
    /\ epoch_iter = 0 /\ epoch = Unbound /\ data_iter = 0 /\ iter_i = 0
    /\ loss_temp = 0 /\ loss = NoLoss
    /\ checkpoints = <<>>
    /\ trained = <<>> /\ iter_ops = <<>> /\ recent = <<>>

\* ------------------------------------------------- helpers of the script
\* line 106: the groups to train
\* variant of GroupRange that ignores --group
GroupRange_all(g) == <<0, cfg.GROUPS>>

GroupRange(g) == IF g = 0 - 1 THEN <<0, cfg.GROUPS>> ELSE <<g, g + 1>>

\* str.startswith
StartsWith(s, p) == Len(s) >= Len(p) /\ SubSeq(s, 1, Len(p)) = p

Digits == {"0", "1", "2", "3", "4", "5", "6", "7", "8", "9"}

\* int(s): of the suffixes the names in Nets have, int accepts exactly the
\* non-empty strings of decimal digits and raises ValueError on the others
IsInt(s) == Len(s) > 0 /\ \A i \in 1..Len(s) : s[i] \in Digits

Vgg16Name == <<"v", "g", "g", "1", "6">>

\* lines 114-120: which branch of the network selection is taken
\* variant of NetBranch that builds vgg16 for an unknown name
NetBranch_lenient(net) ==
    IF net = Vgg16Name THEN "vgg16"
    ELSE IF StartsWith(net, <<"r", "e", "s">>) THEN "res"
    ELSE "vgg16"

NetBranch(net) ==
    IF net = Vgg16Name THEN "vgg16"
    ELSE IF StartsWith(net, <<"r", "e", "s">>) THEN "res"
    ELSE "KeyError"

\* lines 115-118: a detector built from pretrained weights
NewNet(net) == [arch |-> net, init |-> "pretrained", updates |-> 0, grad |-> "none", mode |-> "eval"]

\* lines 134-143: the parameter groups handed to the optimizer
Params(rate) == <<[name |-> "bias", lr |-> RMul(rate, <<cfg.DOUBLE_BIAS + 1, 1>>)],
                  [name |-> "weight", lr |-> rate]>>

\* lines 153-155: the learning rate a group starts with
\* variant of InitialLr that applies the adam factor twice
InitialLr_twice(opt) == IF opt = "adam" THEN RMul(RMul(LEARNING_RATE, Tenth), Tenth) ELSE LEARNING_RATE

InitialLr(opt) == IF opt = "adam" THEN RMul(LEARNING_RATE, Tenth) ELSE LEARNING_RATE

\* net_utils.set_learning_rate: every parameter group gets the rate
set_learning_rate(opt, rate) ==
    [opt EXCEPT !.param_groups = [i \in 1..Len(opt.param_groups) |-> [opt.param_groups[i] EXCEPT !.lr = rate]]]

\* net_utils.adjust_learning_rate: every parameter group's rate is scaled
adjust_learning_rate(opt, decay) ==
    [opt EXCEPT !.param_groups = [i \in 1..Len(opt.param_groups) |->
                                     [opt.param_groups[i] EXCEPT !.lr = RMul(decay, opt.param_groups[i].lr)]]]

\* line 171
\* variant of ItersPerEpoch that rounds up
ItersPerEpoch_ceil(n) == (n + cfg.BATCH_SIZE - 1) \div cfg.BATCH_SIZE

ItersPerEpoch(n) == n \div cfg.BATCH_SIZE

\* line 179: is the learning rate decayed at the start of epoch e
\* variant of DecayDue that also decays at epoch 0
DecayDue_zero(e) == e % cfg.LEARNING_RATE_DECAY_STEP = 0

DecayDue(e) == e % cfg.LEARNING_RATE_DECAY_STEP = 0 /\ e > 0

\* line 209
\* variant of ClipNeeded that clips for every network
ClipNeeded_always(net) == TRUE

ClipNeeded(net) == net = Vgg16Name

\* line 213
DisplayDue(step) == step % cfg.DISPLAY = 0

\* lines 244-246: the checkpoint's file name
\* variant of SaveName that leaves the group out of the name
SaveName_nogroup(g) == [dir |-> output_dir, session |-> args.session, net |-> args.net,
                        dataset |-> args.dataset, group |-> 0]

SaveName(g) == [dir |-> output_dir, session |-> args.session, net |-> args.net,
                dataset |-> args.dataset, group |-> g]

\* lines 247-256: the checkpoint's contents
\* variant of CheckpointState that records the loop variable epoch
CheckpointState_loopvar ==
    [session |-> args.session, epoch |-> epoch,
     model |-> [arch |-> fasterRCNN.arch, init |-> fasterRCNN.init, updates |-> fasterRCNN.updates],
     optimizer |-> optimizer, cls_means |-> class_means, cls_proto |-> class_proto]

CheckpointState ==
    [session |-> args.session, epoch |-> cfg.MAX_EPOCH,
     model |-> [arch |-> fasterRCNN.arch, init |-> fasterRCNN.init, updates |-> fasterRCNN.updates],
     optimizer |-> optimizer, cls_means |-> class_means, cls_proto |-> class_proto]

\* -------------------------------------------------------------- actions
constV == <<args, cfg, output_dir, class_means, class_proto>>
rangeV == <<start_group, end_group>>
groupV == <<group_iter, group, now_cls_low, now_cls_high, trained>>
dbV == <<train_size, iters_per_epoch>>
epochV == <<epoch_iter, epoch>>
iterV == <<data_iter, iter_i>>

\* line 106
SelectGroups ==
    /\ pc = "select_groups"
    /\ start_group' = GroupRange(args.group)[1]
    /\ end_group' = GroupRange(args.group)[2]
    /\ pc' = "group_loop"
    /\ UNCHANGED <<constV, groupV, fasterRCNN, optimizer, lr, dbV, tot_step, epochV, iterV,
                   loss_temp, loss, checkpoints, iter_ops, recent>>

\* lines 109-111: the group loop takes its next group
NextGroup ==
    /\ pc = "group_loop"
    /\ group_iter < Len(PyRange(start_group, end_group))
    /\ group' = PyRange(start_group, end_group)[group_iter + 1]
    /\ group_iter' = group_iter + 1
    /\ now_cls_low' = group_cls[group']
    /\ now_cls_high' = group_cls[group' + 1]
    /\ trained' = Append(trained, group')
    /\ pc' = "get_net"
    /\ UNCHANGED <<constV, rangeV, fasterRCNN, optimizer, lr, dbV, tot_step, epochV, iterV,
                   loss_temp, loss, checkpoints, iter_ops, recent>>

\* lines 109, 260: the group loop is exhausted and 'All Done' is printed
AllDone ==
    /\ pc = "group_loop"
    /\ group_iter >= Len(PyRange(start_group, end_group))
    /\ pc' = "done"
    /\ UNCHANGED <<constV, rangeV, groupV, fasterRCNN, optimizer, lr, dbV, tot_step, epochV, iterV,
                   loss_temp, loss, checkpoints, iter_ops, recent>>

\* lines 113-127: the detector is built
\* variant of GetNet that keeps the detector of the previous group
GetNet_keep ==
    /\ pc = "get_net"
    /\ IF NetBranch(args.net) = "KeyError"
         THEN pc' = "KeyError" /\ UNCHANGED fasterRCNN
         ELSE IF NetBranch(args.net) = "res" /\ ~IsInt(SubSeq(args.net, 4, Len(args.net)))
         THEN pc' = "ValueError" /\ UNCHANGED fasterRCNN
         ELSE /\ fasterRCNN' = IF fasterRCNN = NoNet THEN NewNet(args.net) ELSE fasterRCNN
              /\ pc' = "build_optimizer"
    /\ UNCHANGED <<constV, rangeV, groupV, optimizer, lr, dbV, tot_step, epochV, iterV,
                   loss_temp, loss, checkpoints, iter_ops, recent>>

GetNet ==
    /\ pc = "get_net"
    /\ IF NetBranch(args.net) = "KeyError"
         THEN pc' = "KeyError" /\ UNCHANGED fasterRCNN
         ELSE IF NetBranch(args.net) = "res" /\ ~IsInt(SubSeq(args.net, 4, Len(args.net)))
         THEN pc' = "ValueError" /\ UNCHANGED fasterRCNN
         ELSE /\ fasterRCNN' = NewNet(args.net)
              /\ pc' = "build_optimizer"
    /\ UNCHANGED <<constV, rangeV, groupV, optimizer, lr, dbV, tot_step, epochV, iterV,
                   loss_temp, loss, checkpoints, iter_ops, recent>>

\* lines 129-151: the parameter groups and the optimizer
BuildOptimizer ==
    /\ pc = "build_optimizer"
    /\ IF cfg.OPTIMIZER = "adam"
         THEN /\ lr' = RMul(LEARNING_RATE, Tenth)
              /\ optimizer' = [kind |-> "adam", param_groups |-> Params(LEARNING_RATE), steps |-> 0]
              /\ pc' = "set_lr"
         ELSE IF cfg.OPTIMIZER = "sgd"
         THEN /\ lr' = LEARNING_RATE
              /\ optimizer' = [kind |-> "sgd", param_groups |-> Params(LEARNING_RATE), steps |-> 0]
              /\ pc' = "set_lr"
         ELSE /\ lr' = LEARNING_RATE
              /\ pc' = "KeyError"
              /\ UNCHANGED optimizer
    /\ UNCHANGED <<constV, rangeV, groupV, fasterRCNN, dbV, tot_step, epochV, iterV,
                   loss_temp, loss, checkpoints, iter_ops, recent>>

\* lines 153-157: the group's learning rate is set, the detector enters train mode
SetLearningRate ==
    /\ pc = "set_lr"
    /\ lr' = InitialLr(cfg.OPTIMIZER)
    /\ optimizer' = set_learning_rate(optimizer, lr')
    /\ fasterRCNN' = [fasterRCNN EXCEPT !.mode = "train"]
    /\ pc' = "get_db"
    /\ UNCHANGED <<constV, rangeV, groupV, dbV, tot_step, epochV, iterV,
                   loss_temp, loss, checkpoints, iter_ops, recent>>

\* lines 159-176: the group's database and dataloader; the epoch loop is set up
GetDatabase ==
    /\ pc = "get_db"
    /\ \E n \in 0..MaxTrain :
         /\ train_size' = n
         /\ iters_per_epoch' = ItersPerEpoch(n)
    /\ tot_step' = 0
    /\ epoch_iter' = 0
    /\ recent' = <<>>
    /\ pc' = "epoch_loop"
    /\ UNCHANGED <<constV, rangeV, groupV, fasterRCNN, optimizer, lr, epoch, iterV,
                   loss_temp, loss, checkpoints, iter_ops>>

\* lines 176-183: an epoch starts
NextEpoch ==
    /\ pc = "epoch_loop"
    /\ epoch_iter < cfg.MAX_EPOCH
    /\ epoch' = epoch_iter
    /\ epoch_iter' = epoch_iter + 1
    /\ loss_temp' = 0
    /\ IF DecayDue(epoch')
         THEN /\ optimizer' = adjust_learning_rate(optimizer, LEARNING_RATE_DECAY_GAMMA)
              /\ lr' = RMul(lr, LEARNING_RATE_DECAY_GAMMA)
         ELSE UNCHANGED <<optimizer, lr>>
    /\ data_iter' = 0
    /\ iter_i' = 0
    /\ pc' = "iter_loop"
    /\ UNCHANGED <<constV, rangeV, groupV, fasterRCNN, dbV, tot_step,
                   loss, checkpoints, iter_ops, recent>>

\* line 176: the epoch loop is exhausted
EpochsDone ==
    /\ pc = "epoch_loop"
    /\ epoch_iter >= cfg.MAX_EPOCH
    /\ pc' = "save"
    /\ UNCHANGED <<constV, rangeV, groupV, fasterRCNN, optimizer, lr, dbV, tot_step, epochV, iterV,
                   loss_temp, loss, checkpoints, iter_ops, recent>>

\* lines 184-193: an iteration starts, takes its batch from the iterator and
\* zeroes the detector's gradients
LoadBatch ==
    /\ pc = "iter_loop"
    /\ iter_i < iters_per_epoch
    /\ iter_i' = iter_i + 1
    /\ tot_step' = tot_step + 1
    /\ data_iter' = data_iter + 1
    /\ fasterRCNN' = [fasterRCNN EXCEPT !.grad = "zero"]
    /\ iter_ops' = <<"load", "model.zero_grad">>
    /\ pc' = "forward"
    /\ UNCHANGED <<constV, rangeV, groupV, optimizer, lr, dbV, epochV,
                   loss_temp, loss, checkpoints, recent>>

\* line 184: the iteration loop is exhausted
ItersDone ==
    /\ pc = "iter_loop"
    /\ iter_i >= iters_per_epoch
    /\ pc' = "epoch_loop"
    /\ UNCHANGED <<constV, rangeV, groupV, fasterRCNN, optimizer, lr, dbV, tot_step, epochV, iterV,
                   loss_temp, loss, checkpoints, iter_ops, recent>>

\* lines 194-200: the terms the forward pass returns, the RCNN class loss
\* replaced by the cross entropy over the first high class scores.  One
\* draw x stands for the mean of every term.
ForwardTerms(x, high) ==
    <<[name |-> "rpn_loss_cls", classes |-> 0, value |-> x],
      [name |-> "rpn_loss_bbox", classes |-> 0, value |-> x],
      [name |-> "cross_entropy", classes |-> high, value |-> x],
      [name |-> "RCNN_loss_bbox", classes |-> 0, value |-> x]>>

\* lines 194-204: the forward pass, the total loss and the running sum
Forward ==
    /\ pc = "forward"
    /\ \E x \in LossValues :
         LET terms == ForwardTerms(x, now_cls_high)
         IN loss' = [terms |-> terms, value |-> SumSeq([i \in 1..Len(terms) |-> terms[i].value])]
    /\ loss_temp' = loss_temp + loss'.value
    /\ recent' = LastN(Append(recent, loss'.value), cfg.DISPLAY)
    /\ iter_ops' = iter_ops \o <<"forward", "loss">>
    /\ pc' = "backward"
    /\ UNCHANGED <<constV, rangeV, groupV, fasterRCNN, optimizer, lr, dbV, tot_step, epochV, iterV,
                   checkpoints>>

\* lines 207-210: the backward pass, and the clipping for vgg16
Backward ==
    /\ pc = "backward"
    /\ IF ClipNeeded(args.net)
         THEN /\ fasterRCNN' = [fasterRCNN EXCEPT !.grad = "clipped"]
              /\ iter_ops' = iter_ops \o <<"optimizer.zero_grad", "backward", "clip">>
         ELSE /\ fasterRCNN' = [fasterRCNN EXCEPT !.grad = "computed"]
              /\ iter_ops' = iter_ops \o <<"optimizer.zero_grad", "backward">>
    /\ pc' = "step"
    /\ UNCHANGED <<constV, rangeV, groupV, optimizer, lr, dbV, tot_step, epochV, iterV,
                   loss_temp, loss, checkpoints, recent>>

\* line 211
OptimizerStep ==
    /\ pc = "step"
    /\ fasterRCNN' = [fasterRCNN EXCEPT !.updates = @ + 1]
    /\ optimizer' = [optimizer EXCEPT !.steps = @ + 1]
    /\ iter_ops' = Append(iter_ops, "step")
    /\ pc' = "display"
    /\ UNCHANGED <<constV, rangeV, groupV, lr, dbV, tot_step, epochV, iterV,
                   loss_temp, loss, checkpoints, recent>>

\* lines 213-241: the loss line loss_temp / DISPLAY is printed, loss_temp restarts
Display ==
    /\ pc = "display"
    /\ IF DisplayDue(tot_step)
         THEN loss_temp' = 0
         ELSE UNCHANGED loss_temp
    /\ pc' = "iter_loop"
    /\ UNCHANGED <<constV, rangeV, groupV, fasterRCNN, optimizer, lr, dbV, tot_step, epochV, iterV,
                   loss, checkpoints, iter_ops, recent>>

\* lines 243-258: the group's checkpoint
SaveCheckpoint ==
    /\ pc = "save"
    /\ checkpoints' = Append(checkpoints, [name |-> SaveName(group), state |-> CheckpointState])
    /\ pc' = "group_loop"
    /\ UNCHANGED <<constV, rangeV, groupV, fasterRCNN, optimizer, lr, dbV, tot_step, epochV, iterV,
                   loss_temp, loss, iter_ops, recent>>

Next ==
    \/ SelectGroups \/ NextGroup \/ AllDone \/ GetNet \/ BuildOptimizer
    \/ SetLearningRate \/ GetDatabase \/ NextEpoch \/ EpochsDone
    \/ LoadBatch \/ ItersDone \/ Forward \/ Backward
    \/ OptimizerStep \/ Display \/ SaveCheckpoint

Spec == Init /\ [][Next]_vars

TypeOK == pc \in {"select_groups", "group_loop", "get_net", "build_optimizer", "set_lr", "get_db",
                  "epoch_loop", "iter_loop", "forward", "backward", "step", "display",
                  "save", "done", "KeyError", "ValueError"}
\* --------------------------------------------------------------- claims
IterPcs == {"iter_loop", "forward", "backward", "step", "display"}

NetUnknown == args.net # Vgg16Name /\ ~StartsWith(args.net, <<"r", "e", "s">>)

OptimizerUnknown == cfg.OPTIMIZER \notin {"adam", "sgd"}

\* the rate a group must start with: LEARNING_RATE, a tenth of it under adam
BaseLr == IF cfg.OPTIMIZER = "adam" THEN <<LEARNING_RATE[1], LEARNING_RATE[2] * 10>> ELSE LEARNING_RATE

\* C1: with --group -1 the groups entered are 0, 1, ..., GROUPS-1 in this
\* order, each once (a prefix of it while the run is under way, all of it
\* when 'All Done' is printed); with --group g only group g is entered, once,
\* and every checkpoint written is that of a selected group.
C1_GroupSelection ==
    LET want == IF args.group = 0 - 1 THEN [i \in 1..cfg.GROUPS |-> i - 1] ELSE <<args.group>>
    IN /\ IsPrefix(trained, want)
       /\ pc = "done" => trained = want
       /\ \A i \in 1..Len(checkpoints) : checkpoints[i].name.group \in Range(want)
       /\ args.group # 0 - 1 => \A i \in 1..Len(checkpoints) : checkpoints[i].name.group = args.group

C1_Witness ==
    /\ pc = "done" /\ args.group = 0 - 1
    /\ Len(trained) = cfg.GROUPS /\ Len(checkpoints) = cfg.GROUPS
    /\ checkpoints[1].state.model.updates > 0

\* C2: every group entered gets exactly one checkpoint, written when all
\* MAX_EPOCH epochs of the group are over and before the next group is
\* entered; the file names of one run are pairwise different and carry the
\* group index; 'All Done' comes after the last group's checkpoint.
C2_Checkpointing ==
    LET n == Len(checkpoints)
    IN /\ n = IF pc \in {"select_groups", "group_loop", "done"} THEN Len(trained) ELSE Len(trained) - 1
       /\ \A i \in 1..n : checkpoints[i].name.group = trained[i]
       /\ \A i, j \in 1..n : i # j => checkpoints[i].name # checkpoints[j].name
       /\ pc = "save" => /\ epoch_iter = cfg.MAX_EPOCH
                         /\ cfg.MAX_EPOCH > 0 => iter_i = iters_per_epoch
                         /\ tot_step = cfg.MAX_EPOCH * iters_per_epoch
       /\ pc \in IterPcs => epoch_iter <= cfg.MAX_EPOCH /\ epoch < cfg.MAX_EPOCH
       /\ pc = "done" => n = Len(PyRange(start_group, end_group))

C2_Witness ==
    /\ pc = "done" /\ Len(checkpoints) >= 2
    /\ cfg.MAX_EPOCH >= 2
    /\ checkpoints[2].state.model.updates >= 2

\* C3: inside a group, from the start of epoch e on, the tracked rate lr
\* equals the group's initial rate times GAMMA^floor(e / DECAY_STEP), and
\* every parameter group of the optimizer has the same rate.
C3_DecaySchedule ==
    (pc \in IterPcs \/ (pc \in {"epoch_loop", "save"} /\ epoch_iter > 0)) =>
        /\ REq(lr, RMul(BaseLr, RPow(LEARNING_RATE_DECAY_GAMMA, epoch \div cfg.LEARNING_RATE_DECAY_STEP)))
        /\ \A i \in 1..Len(optimizer.param_groups) : REq(optimizer.param_groups[i].lr, lr)

C3_Witness ==
    /\ pc = "step" /\ epoch = 2 /\ cfg.LEARNING_RATE_DECAY_STEP = 1
    /\ REq(lr, RMul(BaseLr, <<1, 4>>))

\* C4: when a group is about to start its first epoch, lr is LEARNING_RATE
\* under sgd and a tenth of it under adam, and so is the optimizer's rate,
\* whatever the earlier groups did.
C4_RatePerGroup ==
    (pc = "get_db" \/ (pc = "epoch_loop" /\ epoch_iter = 0)) =>
        /\ REq(lr, BaseLr)
        /\ \A i \in 1..Len(optimizer.param_groups) : REq(optimizer.param_groups[i].lr, BaseLr)

C4_Witness ==
    /\ pc = "epoch_loop" /\ epoch_iter = 0 /\ group_iter = 2
    /\ cfg.OPTIMIZER = "adam"
    /\ Len(checkpoints) = 1
    /\ ~REq(checkpoints[1].state.optimizer.param_groups[1].lr, BaseLr)

\* C5: tot_step is 0 when a group's first epoch is about to start, counts the
\* iterations started (floor(train_size / BATCH_SIZE) per epoch), equals
\* MAX_EPOCH * floor(train_size / BATCH_SIZE) when the checkpoint is written;
\* an epoch's iterator is asked for one batch per iteration and never for
\* more than floor(train_size / BATCH_SIZE); the optimizer has stepped once
\* per batch.
C5_IterationCount ==
    LET ipe == train_size \div cfg.BATCH_SIZE
        stepped == IF pc \in {"forward", "backward", "step"}
                   THEN tot_step - 1 ELSE tot_step
    IN /\ (pc = "epoch_loop" /\ epoch_iter = 0) => tot_step = 0
       /\ pc \in IterPcs => /\ tot_step = epoch * ipe + iter_i
                            /\ data_iter = iter_i
                            /\ data_iter <= ipe
       /\ pc = "save" => tot_step = cfg.MAX_EPOCH * ipe
       /\ pc \in IterPcs \cup {"epoch_loop", "save"} =>
              optimizer.steps = stepped /\ fasterRCNN.updates = stepped

C5_Witness ==
    /\ pc = "save" /\ tot_step >= 2
    /\ train_size % cfg.BATCH_SIZE # 0
    /\ cfg.MAX_EPOCH >= 2

\* the steps C6 names, as they are logged
IsClaimedStep(op) == op \in {"load", "model.zero_grad", "forward", "loss", "backward", "clip", "step"}

\* C6: the steps of one iteration come in the order batch load, zeroing of
\* the gradients, forward pass, total loss, backward pass, clipping (only
\* for vgg16, and then always), optimizer step: the log of the iteration,
\* restricted to these steps, is at any time a prefix of that order and is
\* the whole of it once the optimizer has stepped.  The total loss is the sum
\* of the RPN class, RPN box, recomputed RCNN class (over now_cls_high scores)
\* and RCNN box terms.
C6_IterationOrder ==
    LET order == IF args.net = Vgg16Name
                 THEN <<"load", "model.zero_grad", "forward", "loss", "backward", "clip", "step">>
                 ELSE <<"load", "model.zero_grad", "forward", "loss", "backward", "step">>
        done == SelectSeq(iter_ops, IsClaimedStep)
    IN /\ IsPrefix(done, order)
       /\ pc = "display" => done = order /\ iter_ops[Len(iter_ops)] = "step"
       /\ pc = "step" => Len(done) = Len(order) - 1
       /\ pc \in {"backward", "step", "display"} =>
            /\ [i \in 1..Len(loss.terms) |-> loss.terms[i].name]
                 = <<"rpn_loss_cls", "rpn_loss_bbox", "cross_entropy", "RCNN_loss_bbox">>
            /\ loss.terms[3].classes = now_cls_high
            /\ loss.value = loss.terms[1].value + loss.terms[2].value
                              + loss.terms[3].value + loss.terms[4].value

C6_Witness ==
    /\ pc = "display" /\ args.net = Vgg16Name /\ group = 1
    /\ iter_ops = <<"load", "model.zero_grad", "forward", "loss", "optimizer.zero_grad",
                    "backward", "clip", "step">>
\* no iteration has started, no optimizer step was made, nothing was saved
NothingTrained ==
    /\ Len(trained) <= 1
    /\ tot_step = 0 /\ optimizer.steps = 0 /\ fasterRCNN.updates = 0
    /\ iter_ops = <<>> /\ checkpoints = <<>>

\* C7 as stated: with an unknown network or optimizer the run never gets to
\* an iteration, a checkpoint or 'All Done', and the only way it ends is a
\* KeyError raised in the first group entered.
C7_Original ==
    /\ (NetUnknown \/ OptimizerUnknown) =>
          /\ pc \notin IterPcs \cup {"get_db", "epoch_loop", "save", "done", "ValueError"}
          /\ NothingTrained
    /\ pc = "KeyError" => (NetUnknown \/ OptimizerUnknown) /\ Len(trained) = 1

\* C7 as amended: the same, except that a network name that starts with
\* 'res' and does not end in an integer ends the run with a ValueError
\* (from int(args.net[3:])), also when the optimizer is unknown.
C7_UnknownConfigRejected ==
    LET badRes == StartsWith(args.net, <<"r", "e", "s">>) /\ ~IsInt(SubSeq(args.net, 4, Len(args.net)))
    IN /\ (NetUnknown \/ OptimizerUnknown) =>
             /\ pc \notin IterPcs \cup {"get_db", "epoch_loop", "save", "done"}
             /\ pc = "ValueError" => badRes
             /\ NothingTrained
       /\ pc = "KeyError" => (NetUnknown \/ OptimizerUnknown) /\ ~badRes /\ Len(trained) = 1
       /\ pc = "ValueError" => badRes /\ NothingTrained /\ Len(trained) = 1

C7_Witness ==
    /\ pc = "KeyError" /\ OptimizerUnknown /\ ~NetUnknown
    /\ fasterRCNN.init = "pretrained" /\ trained = <<0>>

\* C8: when a loss line is about to be reported, loss_temp is the sum of the
\* total losses of the DISPLAY most recent iterations of the group.
C8_FullWindowMean ==
    (pc = "display" /\ tot_step % cfg.DISPLAY = 0) =>
        /\ Len(recent) = cfg.DISPLAY
        /\ loss_temp = SumSeq(recent)

\* C9: whichever groups the run trained before, a group starts with the
\* detector as built from the pretrained weights, never updated, and with an
\* optimizer that has made no step; the start state depends on --net and the
\* optimizer setting only, not on --group nor on what was trained before.
C9_FreshStartPerGroup ==
    (pc = "get_db" \/ (pc = "epoch_loop" /\ epoch_iter = 0)) =>
        /\ fasterRCNN = [arch |-> args.net, init |-> "pretrained", updates |-> 0,
                         grad |-> "none", mode |-> "train"]
        /\ optimizer.kind = cfg.OPTIMIZER
        /\ optimizer.steps = 0
        /\ [i \in 1..Len(optimizer.param_groups) |-> optimizer.param_groups[i].name] = <<"bias", "weight">>
        /\ \A i \in 1..Len(optimizer.param_groups) : REq(optimizer.param_groups[i].lr, BaseLr)

C9_Witness ==
    /\ pc = "get_db" /\ group_iter = 2 /\ args.group = 0 - 1
    /\ Len(checkpoints) = 1
    /\ checkpoints[1].state.model.updates > 0
    /\ checkpoints[1].state.optimizer.steps > 0

\* C10: class_means stays all zeros and class_proto stays TOTAL_CLS + 1 empty
\* lists through the whole run, every checkpoint stores them so, and every
\* checkpoint records epoch = MAX_EPOCH and session = --session.
C10_CheckpointConstants ==
    LET zeros == [r \in 1..FeatDim |-> [c \in 1..(NUM_CLASSES + 1) |-> 0]]
        empties == [c \in 1..(TOTAL_CLS + 1) |-> <<>>]
    IN /\ class_means = zeros
       /\ class_proto = empties
       /\ \A i \in 1..Len(checkpoints) :
            /\ checkpoints[i].state.cls_means = zeros
            /\ checkpoints[i].state.cls_proto = empties
            /\ checkpoints[i].state.epoch = cfg.MAX_EPOCH
            /\ checkpoints[i].state.session = args.session

C10_Witness ==
    /\ Len(checkpoints) = 2 /\ cfg.MAX_EPOCH >= 2 /\ pc = "done"
    /\ checkpoints[2].state.model.updates > 0
====
